---------------------------- MODULE Spec2Model ----------------------------
(***************************************************************************)
(* Model of the Mongolian book translation pipeline (src/main.py,          *)
(* src/assemble.py): the per-document driver, Stage 1 extraction with      *)
(* batched translation, the Patcher, Stage 2 refinement and Stage 3        *)
(* assembly, over a file system of durable artifacts.                      *)
(*                                                                         *)
(* Texts are sequences of one-character strings.  A reply of the external  *)
(* service is a tagged record (field k) describing what the HTTP call did. *)
(***************************************************************************)
EXTENDS Integers, Sequences, FiniteSets, TLC

VARIABLES
    books,      \* main: the sorted list of source documents
    files,      \* durable artifacts of each document
    pc,         \* position of the single thread of control
    bi,         \* main: index of the document being processed
    loc,        \* locals of the running functions
    stages,     \* history: stages entered by the current process_single_book
    calls,      \* history: external-service calls of the current process_single_book
    entry,      \* history: the artifacts as process_single_book found them
    attempts,   \* history: calls of process_single_book per document, this run
    errors,     \* history: exceptions caught by main, this run
    ended,      \* history: how the last process_single_book ended
    faults,     \* number of non-default answers of the environment so far
    prog,       \* the entry point that is running: main or process_all
    raisedAt,   \* history: the position at which the last exception was raised
    renders,    \* history: renderers called by the current process_single_book
    tSentences, \* translate_sentence_batch: argument all_sentences
    tOutcome,   \* translate_sentence_batch: what the HTTP call does
    tResult,    \* translate_sentence_batch: what the call gave its caller
    aData,      \* assembler: argument book_data
    aOnDisk,    \* assembler: image paths that exist
    aPdf,       \* assembler: blocks emitted by assemble_pdf
    aEpub,      \* assembler: blocks emitted by assemble_epub
    sText,      \* split_sentences: argument text
    sOut,       \* split_sentences: the sentences returned for sText
    sAgain      \* split_sentences: the sentences returned for the joined sOut

pipeVars ==
    <<books, files, pc, bi, loc, stages, calls, entry, attempts, errors, ended, faults,
      prog, raisedAt, renders>>
trVars == <<tSentences, tOutcome, tResult>>
asmVars == <<aData, aOnDisk, aPdf, aEpub>>
splVars == <<sText, sOut, sAgain>>
offVars == <<prog, trVars, asmVars, splVars>>
vars == <<pipeVars, trVars, asmVars, splVars>>

----------------------------------------------------------------------------
(* Texts *)

S1 == <<"a", "b", ".">>
S2 == <<"c", "d", "!">>
Sentences == {S1, S2}

Punctuation == {".", "!", "?"}

\* split_sentences has not been called
NotSplit == [done |-> FALSE, out |-> <<>>]

\* str.endswith(('.', '!', '?'))
EndsWithPunct(t) == Len(t) > 0 /\ t[Len(t)] \in Punctuation

----------------------------------------------------------------------------
(* The external service and translate_sentence_batch *)

\* one object of the "translations" list; a key may be missing
Entry(e, m) == [hasEn |-> TRUE, en |-> e, hasMn |-> TRUE, mn |-> m]
EntryNoMn(e) == [hasEn |-> TRUE, en |-> e, hasMn |-> FALSE, mn |-> <<>>]
EntryNoEn(m) == [hasEn |-> FALSE, en |-> <<>>, hasMn |-> TRUE, mn |-> m]

MnTexts == {<<>>, <<"x">>, <<"x", "y", "z">>, <<"x", "y", "?">>}

Entries ==
    {Entry(e, m) : e \in Sentences, m \in MnTexts}
        \cup {EntryNoMn(e) : e \in Sentences} \cup {EntryNoEn(m) : m \in MnTexts}

\* values of the "translations" key
TrNull == [k |-> "null"]
TrList(l) == [k |-> "list", v |-> l]

\* parsed payloads
PayArray(isEmpty) == [k |-> "array", empty |-> isEmpty]
PayObjectNoKey(isEmpty) == [k |-> "object", has |-> FALSE, empty |-> isEmpty]
PayObject(tr) == [k |-> "object", has |-> TRUE, empty |-> FALSE, tr |-> tr]

\* the "response" text of the envelope
TextNotString == [k |-> "notstring"]
TextNoSpan == [k |-> "nospan"]
TextBadSpan == [k |-> "badspan"]
TextJson(p) == [k |-> "json", v |-> p]

\* what session.post / raise_for_status / response.json do
OTimeout == [k |-> "timeout"]
OConnection == [k |-> "connection"]
OHttpError == [k |-> "http_error"]
OEnvelopeNotJson == [k |-> "envelope_not_json"]
OEnvelopeNotDict == [k |-> "envelope_not_dict"]
OEnvelopeNoResponse == [k |-> "envelope", hasResponse |-> FALSE, text |-> TextNoSpan]
OReply(text) == [k |-> "envelope", hasResponse |-> TRUE, text |-> text]
OTranslations(l) == OReply(TextJson(PayObject(TrList(l))))

\* results of a call: a returned value or an exception leaving the function
Returned(v) == [exc |-> "none", val |-> v]
Raised(e) == [exc |-> e, val |-> TrList(<<>>)]

EmptyResult == TrList(<<>>)

NotCalled == [exc |-> "pending", val |-> EmptyResult]

JsonNone == [k |-> "none", empty |-> TRUE]

\* main.py 53-64: iterating a non-string raises inside the try (None); no
\* {...} or [...] span gives None; a span json.loads rejects raises inside
\* the try (None); otherwise the parsed value of the span
extract_json(text) ==
    CASE text.k = "notstring" -> JsonNone
      [] text.k = "nospan" -> JsonNone
      [] text.k = "badspan" -> JsonNone
      [] OTHER -> text.v

\* Python truthiness of extract_json's result (None, {} and [] are falsy)
Truthy(result) == ~result.empty

\* main.py 106-121: the body of the try block
TryBody(o) ==
    CASE o.k = "timeout" -> Raised("Timeout")
      [] o.k = "connection" -> Raised("ConnectionError")
      [] o.k = "http_error" -> Raised("HTTPError")
      [] o.k = "envelope_not_json" -> Raised("JSONDecodeError")
      [] o.k = "envelope_not_dict" -> Raised("AttributeError")
      [] OTHER ->
            LET result == extract_json(IF o.hasResponse THEN o.text
                                       ELSE TextJson(PayObjectNoKey(TRUE)))
            IN  IF ~Truthy(result) THEN Returned(EmptyResult)
                ELSE IF result.k = "array" THEN Raised("AttributeError")
                ELSE IF result.has THEN Returned(result.tr)
                ELSE Returned(EmptyResult)

ExceptionClasses == {"Timeout", "ConnectionError", "HTTPError", "JSONDecodeError", "AttributeError"}
RequestExceptions == {"Timeout", "ConnectionError", "HTTPError"}

\* a handler that catches only the transport's exceptions
CatchesRequestsOnly(e) == e \in RequestExceptions

\* main.py 122: except Exception
Catches(e) == e \in ExceptionClasses

\* main.py 95-124
translate_sentence_batch(all_sentences, o) ==
    IF all_sentences = <<>> THEN Returned(EmptyResult)
    ELSE LET r == TryBody(o)
         IN  IF r.exc # "none" /\ Catches(r.exc) THEN Returned(EmptyResult) ELSE r

----------------------------------------------------------------------------
(* Document State and its serialisation *)

FlushThreshold == 30
StructuralMinSize == 1000
RefinedMinSize == 1000
PdfMinSize == 10000

TextTypes == {"paragraph", "heading"}

NoPath == <<>>

Segment(e, m) == [en |-> e, mn |-> m]

RECURSIVE SeqSum(_)
SeqSum(s) == IF s = <<>> THEN 0 ELSE Head(s) + SeqSum(Tail(s))

\* bytes of one segment object in json.dump(..., indent=4), with its separator
SegmentSize(item) == 78 + Len(item.en) + Len(item.mn) + 2

\* bytes of one block object in json.dump(..., indent=4), with its separator
BlockSize(b) ==
    IF b.type = "image" THEN 97 + Len(b.path) + 2
    ELSE 94 + (IF b.type = "heading" THEN 7 ELSE 9)
            + (IF b.content = <<>> THEN 0
               ELSE 8 + SeqSum([i \in 1..Len(b.content) |-> SegmentSize(b.content[i])]))
            + 2

\* main.py 252-253, 277-278; assemble.py 242-243: len of json.dump(data, indent=4)
JsonSize(data) ==
    IF data = <<>> THEN 2
    ELSE 2 + SeqSum([i \in 1..Len(data) |-> BlockSize(data[i])])

----------------------------------------------------------------------------
(* Source documents: what get_page_structure yields for each page *)

MaxBooks == 2
MaxFaults == 1

PageBlock(t, ss) == [type |-> t, sentences |-> ss]

Img == PageBlock("image", <<>>)
Head1 == PageBlock("heading", <<S1>>)
Para2 == PageBlock("paragraph", <<S1, S2>>)
ParaLong == PageBlock("paragraph", [i \in 1..FlushThreshold |-> S1])

Book(r, ps) == [readable |-> r, pages |-> ps]

SmallBook == Book(TRUE, << <<Para2, Img>> >>)
LargeBook == Book(TRUE, << <<ParaLong>>, <<Img, Head1>> >>)
EmptyBook == Book(TRUE, <<>>)
BrokenBook == Book(FALSE, <<>>)

Books == {SmallBook, LargeBook, EmptyBook, BrokenBook}
TinyBooks == {EmptyBook, BrokenBook}

\* the sorted document lists main may find: one document of any kind, or
\* MaxBooks documents of which at most one has text
OneBook == {<<b>> : b \in Books}
ManyBooks ==
    {l \in [1..MaxBooks -> TinyBooks \cup {SmallBook}] :
        Cardinality({i \in 1..MaxBooks : l[i] = SmallBook}) <= 1}

\* main.py 227-233: the blocks of all pages in reading order, each with its
\* page number (page_num + 1) and its index on the page
RECURSIVE PageBlocks(_, _, _)
PageBlocks(page, n, i) ==
    IF i > Len(page) THEN <<>>
    ELSE <<[page |-> n, idx |-> i - 1, type |-> page[i].type,
            sentences |-> page[i].sentences]>> \o PageBlocks(page, n, i + 1)

RECURSIVE AllBlocks(_, _)
AllBlocks(pages, n) ==
    IF n > Len(pages) THEN <<>>
    ELSE PageBlocks(pages[n], n, 1) \o AllBlocks(pages, n + 1)

----------------------------------------------------------------------------
(* Durable artifacts *)

NoFile == [exists |-> FALSE, data |-> <<>>]
DataFile(d) == [exists |-> TRUE, data |-> d]
NoFinal == [exists |-> FALSE, size |-> 0]
FinalFile(n) == [exists |-> TRUE, size |-> n]

NoArtifacts == [structural |-> NoFile, refined |-> NoFile, final |-> NoFinal, epub |-> FALSE]

\* a validity test that accepts a file of exactly the minimum size
is_valid_file_ge(exists, size, min_size) == exists /\ size >= min_size

\* main.py 286-288
is_valid_file(exists, size, min_size) == exists /\ size > min_size

FinalValid(a) == is_valid_file(a.final.exists, a.final.size, PdfMinSize)
RefinedValid(a) ==
    is_valid_file(a.refined.exists, JsonSize(a.refined.data), RefinedMinSize)
StructuralValid(a) ==
    is_valid_file(a.structural.exists, JsonSize(a.structural.data), StructuralMinSize)

----------------------------------------------------------------------------
(* Locals *)

LocInit ==
    [full_structure |-> <<>>, pending_blocks |-> <<>>, pending_sentences |-> <<>>,
     todo |-> <<>>, data |-> <<>>, pb |-> 1, pi |-> 1, chunk |-> 0,
     modified_count |-> 0, requests |-> 0, writes |-> 0, needed |-> 0,
     translated |-> TRUE,
     path |-> "none",
     answer |-> [k |-> "none"],
     last |-> [sent |-> FALSE, before |-> <<>>, idxs |-> <<>>, reply |-> [k |-> "fail"]]]

----------------------------------------------------------------------------
(* The answers of the external service offered to the pipeline *)

DefaultMn == <<"x", "y", "z">>

\* every requested sentence translated, without terminal punctuation
DefaultOutcome(sents) ==
    OTranslations([i \in 1..Len(SelectSeq(<<S1, S2>>, LAMBDA s : \E j \in 1..Len(sents) : sents[j] = s))
                    |-> Entry(SelectSeq(<<S1, S2>>, LAMBDA s : \E j \in 1..Len(sents) : sents[j] = s)[i],
                              DefaultMn)])

\* no reply; a null list; a short text for S1 only; a punctuated text for S2
\* only; an object without "mn"
Deviations ==
    {OTimeout, OReply(TextJson(PayObject(TrNull))),
     OTranslations(<<Entry(S1, <<"x">>)>>),
     OTranslations(<<Entry(S2, <<"x", "y", "?">>)>>),
     OTranslations(<<EntryNoMn(S1)>>)}

Answers(sents) == {DefaultOutcome(sents)} \cup (IF faults < MaxFaults THEN Deviations ELSE {})

Spent(sents, o) == IF o = DefaultOutcome(sents) THEN faults ELSE faults + 1

----------------------------------------------------------------------------
(* Stage 1: flush_batch *)

\* mapping.get(en, "") over {t["en"]: t["mn"] for t in translations if ...}:
\* entries lacking a key are skipped, a later entry replaces an earlier one
RECURSIVE MapGet(_, _)
MapGet(l, en) ==
    IF l = <<>> THEN <<>>
    ELSE LET t == l[Len(l)]
         IN  IF t.hasEn /\ t.hasMn /\ t.en = en THEN t.mn
             ELSE MapGet(SubSeq(l, 1, Len(l) - 1), en)

\* a flush that stores the reply as it came
FlushKeepsText(mn) == mn

\* main.py 213
FlushPunctuate(mn) == IF mn # <<>> /\ ~EndsWithPunct(mn) THEN Append(mn, ".") ELSE mn

\* main.py 210-220: one pending block with its content filled in
FlushBlock(block, l) ==
    [page |-> block.page, type |-> block.type,
     content |-> [i \in 1..Len(block.sentences) |->
                    Segment(block.sentences[i], FlushPunctuate(MapGet(l, block.sentences[i])))],
     path |-> NoPath]

\* a flush that keeps only the blocks it has just translated
FlushResultOverwrites(l, o) ==
    IF l.pending_sentences = <<>> THEN [exc |-> "none", called |-> FALSE, loc |-> l]
    ELSE LET r == translate_sentence_batch(l.pending_sentences, o)
         IN  IF r.exc # "none" THEN [exc |-> r.exc, called |-> TRUE, loc |-> l]
             ELSE IF r.val.k # "list" THEN [exc |-> "TypeError", called |-> TRUE, loc |-> l]
             ELSE [exc |-> "none", called |-> TRUE,
                   loc |-> [l EXCEPT
                        !.full_structure = [i \in 1..Len(l.pending_blocks) |->
                                                FlushBlock(l.pending_blocks[i], r.val.v)],
                        !.pending_blocks = <<>>,
                        !.pending_sentences = <<>>]]

\* main.py 203-225: the locals after flush_batch, or the exception leaving it
FlushResult(l, o) ==
    IF l.pending_sentences = <<>> THEN [exc |-> "none", called |-> FALSE, loc |-> l]
    ELSE LET r == translate_sentence_batch(l.pending_sentences, o)
         IN  IF r.exc # "none" THEN [exc |-> r.exc, called |-> TRUE, loc |-> l]
             ELSE IF r.val.k # "list" THEN [exc |-> "TypeError", called |-> TRUE, loc |-> l]
             ELSE [exc |-> "none", called |-> TRUE,
                   loc |-> [l EXCEPT
                        !.full_structure = @ \o [i \in 1..Len(l.pending_blocks) |->
                                                    FlushBlock(l.pending_blocks[i], r.val.v)],
                        !.pending_blocks = <<>>,
                        !.pending_sentences = <<>>]]

----------------------------------------------------------------------------
(* Patcher helpers *)

\* main.py 271
NeedsPatch(item) == item.mn = <<>> \/ Len(item.mn) < 3

NoPosition == <<0, 0>>

\* a loop that patches paragraphs only
RECURSIVE NextNeedyParagraph(_, _, _)
NextNeedyParagraph(data, b, i) ==
    IF b > Len(data) THEN NoPosition
    ELSE IF data[b].type # "paragraph" \/ i > Len(data[b].content)
    THEN NextNeedyParagraph(data, b + 1, 1)
    ELSE IF NeedsPatch(data[b].content[i]) THEN <<b, i>>
    ELSE NextNeedyParagraph(data, b, i + 1)

\* main.py 268-271: the first segment at or after (b, i), in iteration order,
\* that the loop would patch; NoPosition when the loop runs to its end
RECURSIVE NextNeedy(_, _, _)
NextNeedy(data, b, i) ==
    IF b > Len(data) THEN NoPosition
    ELSE IF data[b].type \notin TextTypes \/ i > Len(data[b].content)
    THEN NextNeedy(data, b + 1, 1)
    ELSE IF NeedsPatch(data[b].content[i]) THEN <<b, i>>
    ELSE NextNeedy(data, b, i + 1)

\* positions (block, item) of the segments of headings and paragraphs
TextPositions(data) ==
    UNION {{<<b, i>> : i \in 1..Len(data[b].content)} :
                b \in {c \in 1..Len(data) : data[c].type \in TextTypes}}

\* the K of a Patcher pass: segments whose target is empty or under 3 characters
ShortTargets(data) ==
    Cardinality({q \in TextPositions(data) : Len(data[q[1]].content[q[2]].mn) < 3})

\* main.py 275
PatchPunctuate(mn) == IF ~EndsWithPunct(mn) THEN Append(mn, ".") ELSE mn

----------------------------------------------------------------------------
(* Stage 2 helpers *)

ChunkSize == 15

RefinedText == <<"r", "s", ".">>

\* the texts a reply lists, by position
RefinedTexts == <<RefinedText, <<"t", "u", ".">>, <<"v", "w", "!">>>>

\* what the refinement request gives: a failure inside the try before
\* refined_list is bound (transport, status, envelope, payload that is no
\* object), or the value under "refined_mn": a list (the empty list when the
\* key is missing), null, or a string
RFail == [k |-> "fail"]
RList(l) == [k |-> "list", v |-> l]


\* assemble.py 118: indices of the translatable blocks, in order
Translatable(data) ==
    SelectSeq([i \in 1..Len(data) |-> i],
              LAMBDA i : data[i].type \in TextTypes /\ data[i].content # <<>>)

\* assemble.py 126-127: the block indices of chunk c (1-based)
Chunk(data, c) ==
    LET t == Translatable(data)
        lo == (c - 1) * ChunkSize + 1
        hi == IF c * ChunkSize < Len(t) THEN c * ChunkSize ELSE Len(t)
    IN  SubSeq(t, lo, hi)

\* segments of the chunk's blocks before block j of the chunk
SegOffset(data, idxs, j) ==
    SeqSum([i \in 1..(j - 1) |-> Len(data[idxs[i]].content)])

SegCount(data, idxs) == SegOffset(data, idxs, Len(idxs) + 1)

\* assemble.py 69-74: input_text.strip() is empty when no segment has text
NothingToRefine(data, idxs) ==
    \A j \in 1..Len(idxs) : \A i \in 1..Len(data[idxs[j]].content) :
        data[idxs[j]].content[i].mn = <<>>

\* a replacement that counts positions from the start of each block
ApplyRefinedPerBlock(data, idxs, l) ==
    [b \in 1..Len(data) |->
        IF \E j \in 1..Len(idxs) : idxs[j] = b
        THEN [data[b] EXCEPT !.content =
                [i \in 1..Len(@) |->
                    IF i <= Len(l) THEN [@[i] EXCEPT !.mn = l[i]] ELSE @[i]]]
        ELSE data[b]]

\* assemble.py 101-107: positional replacement of target texts
ApplyRefined(data, idxs, l) ==
    [b \in 1..Len(data) |->
        IF \E j \in 1..Len(idxs) : idxs[j] = b
        THEN LET j == CHOOSE j \in 1..Len(idxs) : idxs[j] = b
                 off == SegOffset(data, idxs, j)
             IN  [data[b] EXCEPT !.content =
                    [i \in 1..Len(@) |->
                        IF off + i <= Len(l) THEN [@[i] EXCEPT !.mn = l[off + i]]
                        ELSE @[i]]]
        ELSE data[b]]

\* assemble.py 65-112: a list replaces by position; a string is indexed like
\* a list, one character per segment; len(None) raises inside the try
refine_chunk(data, idxs, o) ==
    CASE o.k = "list" -> ApplyRefined(data, idxs, o.v)
      [] o.k = "string" -> ApplyRefined(data, idxs, [i \in 1..Len(o.v) |-> <<o.v[i]>>])
      [] OTHER -> data

DefaultRefined(n) ==
    RList([i \in 1..n |-> RefinedTexts[((i - 1) % Len(RefinedTexts)) + 1]])

\* replies other than the full list: a failure, null, a string, an empty
\* list, a list of one text, a list of one text without terminal punctuation
RefineDeviations ==
    {RFail, [k |-> "null"], [k |-> "string", v |-> RefinedText],
     RList(<<>>), RList(<<RefinedText>>), RList(<<<<"r", "s">>>>)}

RefineAnswers(n) == {DefaultRefined(n)} \cup (IF faults < MaxFaults THEN RefineDeviations ELSE {})

----------------------------------------------------------------------------
(* Stage 3: the two renderers, as the sequence of blocks they emit *)

NotRun == [done |-> FALSE, out |-> <<>>]
Rendered(items) == [done |-> TRUE, out |-> items]

\* what a renderer puts into its output for block i of book_data
Emitted(i, kind) == [src |-> i, as |-> kind]

\* " ".join(item["mn"] for item in content if item.get("mn")) is not empty
HasTarget(block) == \E i \in 1..Len(block.content) : block.content[i].mn # <<>>

\* os.path.exists(block.get("path", ""))
PathExists(disk, block) == disk[block.path] # "missing"

\* assemble.py 150-172: the loop of assemble_pdf from block i on; an image
\* that pdf.image cannot load is skipped by the bare except
RECURSIVE PdfLoop(_, _, _)
PdfLoop(data, disk, i) ==
    IF i > Len(data) THEN <<>>
    ELSE LET block == data[i]
         IN  IF block.type = "image"
             THEN (IF PathExists(disk, block) /\ disk[block.path] = "ok"
                   THEN <<Emitted(i, "image")>> ELSE <<>>) \o PdfLoop(data, disk, i + 1)
             ELSE <<Emitted(i, IF block.type = "heading" THEN "heading" ELSE "paragraph")>>
                    \o PdfLoop(data, disk, i + 1)

\* assemble.py 145-176
assemble_pdf(data, disk) == PdfLoop(data, disk, 1)

\* assemble.py 22-26
EPUB_AVAILABLE == TRUE

EpubStart == [chapters |-> <<>>, open |-> FALSE, content |-> <<>>]

\* assemble.py 206-209, 219-222: the current chapter, if any, is registered
CloseChapter(st) ==
    IF st.open THEN [st EXCEPT !.chapters = Append(@, st.content)] ELSE st

\* assemble.py 193-217: the loop of assemble_epub from block i on
RECURSIVE EpubLoop(_, _, _, _)
EpubLoop(data, disk, i, st) ==
    IF i > Len(data) THEN st
    ELSE LET block == data[i]
         IN  IF block.type = "image"
             THEN EpubLoop(data, disk, i + 1,
                    IF PathExists(disk, block)
                    THEN [st EXCEPT !.content = Append(@, Emitted(i, "image"))]
                    ELSE st)
             ELSE IF block.type = "heading" \/ i = 1
             THEN EpubLoop(data, disk, i + 1,
                    [CloseChapter(st) EXCEPT !.open = TRUE,
                                             !.content = <<Emitted(i, "title")>>])
             ELSE EpubLoop(data, disk, i + 1,
                    IF HasTarget(block)
                    THEN [st EXCEPT !.content = Append(@, Emitted(i, "paragraph"))]
                    ELSE st)

RECURSIVE Concat(_)
Concat(ss) == IF ss = <<>> THEN <<>> ELSE Head(ss) \o Concat(Tail(ss))

\* assemble.py 178-231: the content of the chapters in spine order
assemble_epub(data, disk) ==
    IF ~EPUB_AVAILABLE THEN <<>>
    ELSE Concat(CloseChapter(EpubLoop(data, disk, 1, EpubStart)).chapters)

----------------------------------------------------------------------------
(* Control *)

Push(s) == stages' = Append(stages, s)

\* main.py 306, 321, 340: process_single_book returns to the loop of main
ReturnToMain ==
    /\ pc' = "main"
    /\ bi' = bi + 1
    /\ ended' = "returned"
    /\ loc' = LocInit
    /\ UNCHANGED <<errors, raisedAt>>

\* an exception that ends the whole run
AbortMain ==
    /\ pc' = "done"
    /\ ended' = "raised"
    /\ raisedAt' = pc
    /\ errors' = errors \cup {bi}
    /\ loc' = LocInit
    /\ UNCHANGED bi

\* main.py 351-353: except Exception: log, continue
CatchInMain ==
    /\ pc' = "main"
    /\ bi' = bi + 1
    /\ ended' = "raised"
    /\ raisedAt' = pc
    /\ errors' = errors \cup {bi}
    /\ loc' = LocInit

\* the return of assemble.process_single_book and of the driver above it;
\* assemble.py 269-270: under process_all it returns to the loop
Return ==
    IF prog = "main" THEN ReturnToMain
    ELSE /\ pc' = "all"
         /\ bi' = bi + 1
         /\ ended' = "returned"
         /\ loc' = LocInit
         /\ UNCHANGED <<errors, raisedAt>>

\* an exception leaving assemble.process_single_book reaches the caller's
\* loop; assemble.py 256-270: the loop of process_all has no handler, the
\* exception leaves process_all and ends the run
Raise ==
    IF prog = "main" THEN CatchInMain
    ELSE /\ pc' = "aborted"
         /\ ended' = "raised"
         /\ raisedAt' = pc
         /\ loc' = LocInit
         /\ UNCHANGED <<bi, errors>>

Goto(p) ==
    /\ pc' = p
    /\ UNCHANGED <<bi, ended, errors, raisedAt>>

Fresh(n) == [i \in 1..n |-> 0]

----------------------------------------------------------------------------
(* main and the driver *)

Start(lists) ==
    /\ books \in lists
    /\ files = [i \in 1..Len(books) |-> NoArtifacts]
    /\ pc = "main"
    /\ bi = 1
    /\ loc = LocInit
    /\ stages = <<>>
    /\ calls = 0
    /\ entry = NoArtifacts
    /\ attempts = Fresh(Len(books))
    /\ errors = {}
    /\ ended = "none"
    /\ faults = 0
    /\ prog = "main"
    /\ raisedAt = "none"
    /\ renders = <<>>
    /\ tSentences = <<>>
    /\ tOutcome = OTimeout
    /\ tResult = NotCalled
    /\ aData = <<>>
    /\ aOnDisk = <<>>
    /\ aPdf = NotRun
    /\ aEpub = NotRun
    /\ sText = <<>>
    /\ sOut = NotSplit
    /\ sAgain = NotSplit

\* main.py 347-350, 290-301: the loop takes the next document
StartBook ==
    /\ pc = "main"
    /\ bi <= Len(books)
    /\ attempts' = [attempts EXCEPT ![bi] = @ + 1]
    /\ entry' = files[bi]
    /\ stages' = <<>>
    /\ renders' = <<>>
    /\ calls' = 0
    /\ ended' = "running"
    /\ raisedAt' = "none"
    /\ pc' = "check1"
    /\ UNCHANGED <<books, files, bi, loc, errors, faults, offVars>>

\* main.py 355-357: the loop is over
FinishMain ==
    /\ pc = "main"
    /\ bi > Len(books)
    /\ pc' = "done"
    /\ UNCHANGED <<books, files, bi, loc, stages, renders, calls, entry, attempts, errors, raisedAt,
                   ended, faults, offVars>>

\* a driver that reprocesses a document whatever its final artifact
Check1Reprocesses ==
    /\ pc = "check1"
    /\ files' = [files EXCEPT ![bi].final = NoFinal]
    /\ Goto("check2")
    /\ UNCHANGED <<books, loc, stages, renders, calls, entry, attempts, faults, offVars>>

\* main.py 303-309
Check1 ==
    /\ pc = "check1"
    /\ IF FinalValid(files[bi])
       THEN ReturnToMain /\ UNCHANGED files
       ELSE /\ files' = [files EXCEPT ![bi].final = NoFinal]
            /\ Goto("check2")
            /\ UNCHANGED loc
    /\ UNCHANGED <<books, stages, renders, calls, entry, attempts, faults, offVars>>

\* a driver that never takes the assembly-only path
Check2Reprocesses ==
    /\ pc = "check2"
    /\ files' = [files EXCEPT ![bi].refined = NoFile]
    /\ Goto("check3")
    /\ UNCHANGED <<books, loc, stages, renders, calls, entry, attempts, faults, offVars>>

\* main.py 311-324
Check2 ==
    /\ pc = "check2"
    /\ IF RefinedValid(files[bi])
       THEN /\ loc' = [loc EXCEPT !.data = files[bi].refined.data, !.path = "assemble_only"]
            /\ Goto("pdf")
            /\ UNCHANGED files
       ELSE /\ files' = [files EXCEPT ![bi].refined = NoFile]
            /\ Goto("check3")
            /\ UNCHANGED loc
    /\ UNCHANGED <<books, stages, renders, calls, entry, attempts, faults, offVars>>

\* main.py 326-331
Check3 ==
    /\ pc = "check3"
    /\ IF ~StructuralValid(files[bi]) THEN Goto("stage1") ELSE Goto("patch")
    /\ UNCHANGED <<books, files, loc, stages, renders, calls, entry, attempts, faults, offVars>>

----------------------------------------------------------------------------
(* Stage 1 *)

\* an extractor that never looks for an earlier structural state
Stage1AlwaysExtracts ==
    /\ pc = "stage1"
    /\ stages' = stages \o <<"stage1", "extract">>
    /\ IF ~books[bi].readable
       THEN CatchInMain
       ELSE /\ loc' = [LocInit EXCEPT !.todo = AllBlocks(books[bi].pages, 1), !.path = "full"]
            /\ Goto("extract")
    /\ UNCHANGED <<books, files, renders, calls, entry, attempts, faults, offVars>>

\* main.py 189-201: process_book_stage1 up to the page loop
Stage1Enter ==
    /\ pc = "stage1"
    /\ IF files[bi].structural.exists
       THEN /\ Push("stage1")
            /\ Goto("patch")
            /\ UNCHANGED loc
       ELSE /\ stages' = stages \o <<"stage1", "extract">>
            /\ IF ~books[bi].readable
               THEN CatchInMain
               ELSE /\ loc' = [LocInit EXCEPT !.todo = AllBlocks(books[bi].pages, 1),
                                              !.path = "full"]
                    /\ Goto("extract")
    /\ UNCHANGED <<books, files, renders, calls, entry, attempts, faults, offVars>>

\* main.py 233-253: one block of a page
Stage1Block ==
    /\ pc = "extract"
    /\ loc.todo # <<>>
    /\ LET b == Head(loc.todo)
           l1 == [loc EXCEPT !.todo = Tail(@),
                             !.pending_blocks = Append(@, b),
                             !.pending_sentences = @ \o b.sentences]
       IN  IF b.type = "image"
           THEN /\ loc' = [loc EXCEPT
                        !.todo = Tail(@),
                        !.full_structure = Append(@, [page |-> b.page, type |-> "image",
                                                     content |-> <<>>,
                                                     path |-> <<b.page, b.idx>>])]
                /\ Goto("extract")
                /\ UNCHANGED <<files, calls, faults>>
           ELSE IF Len(l1.pending_sentences) < FlushThreshold
           THEN /\ loc' = l1
                /\ Goto("extract")
                /\ UNCHANGED <<files, calls, faults>>
           ELSE \E o \in Answers(l1.pending_sentences) :
                    LET f == FlushResult(l1, o)
                    IN  /\ calls' = calls + 1
                        /\ faults' = Spent(l1.pending_sentences, o)
                        /\ IF f.exc # "none"
                           THEN CatchInMain /\ UNCHANGED files
                           ELSE /\ loc' = f.loc
                                /\ files' = [files EXCEPT ![bi].structural =
                                                DataFile(f.loc.full_structure)]
                                /\ Goto("extract")
    /\ UNCHANGED <<books, stages, renders, entry, attempts, offVars>>

\* main.py 255-260: the final flush and the last write
Stage1Finish ==
    /\ pc = "extract"
    /\ loc.todo = <<>>
    /\ \E o \in Answers(loc.pending_sentences) :
            LET f == FlushResult(loc, o)
            IN  /\ f.called \/ o = DefaultOutcome(loc.pending_sentences)
                /\ calls' = IF f.called THEN calls + 1 ELSE calls
                /\ faults' = IF f.called THEN Spent(loc.pending_sentences, o) ELSE faults
                /\ IF f.exc # "none"
                   THEN CatchInMain /\ UNCHANGED files
                   ELSE /\ loc' = f.loc
                        /\ files' = [files EXCEPT ![bi].structural =
                                        DataFile(f.loc.full_structure)]
                        /\ Goto("patch")
    /\ UNCHANGED <<books, stages, renders, entry, attempts, offVars>>

----------------------------------------------------------------------------
(* Patcher *)

\* main.py 262-267
PatchLoad ==
    /\ pc = "patch"
    /\ Push("patch")
    /\ IF ~files[bi].structural.exists
       THEN CatchInMain
       ELSE /\ loc' = [LocInit EXCEPT
                    !.data = files[bi].structural.data,
                    !.needed = ShortTargets(files[bi].structural.data),
                    !.path = "full"]
            /\ Goto("patching")
    /\ UNCHANGED <<books, files, renders, calls, entry, attempts, faults, offVars>>

\* a Patcher that leaves the file as it was loaded
PatchNotWritten(f, data) == f

\* main.py 277-278: the structural file after json.dump(data)
PatchWritten(f, data) == [f EXCEPT ![bi].structural = DataFile(data)]

\* main.py 268-278: the next segment that needs a translation
PatchStep ==
    /\ pc = "patching"
    /\ NextNeedy(loc.data, loc.pb, loc.pi) # NoPosition
    /\ LET q == NextNeedy(loc.data, loc.pb, loc.pi)
           item == loc.data[q[1]].content[q[2]]
       IN  \E o \in Answers(<<item.en>>) :
            LET r == translate_sentence_batch(<<item.en>>, o)
                res == r.val
                got == res.k = "list" /\ res.v # <<>> /\ res.v[1].hasMn /\ res.v[1].mn # <<>>
                l1 == [loc EXCEPT !.pb = q[1], !.pi = q[2] + 1, !.requests = @ + 1,
                                  !.translated = @ /\ got, !.answer = o]
                l2 == [l1 EXCEPT !.data[q[1]].content[q[2]].mn = PatchPunctuate(res.v[1].mn),
                                 !.modified_count = @ + 1,
                                 !.writes = @ + 1]
            IN  /\ calls' = calls + 1
                /\ faults' = Spent(<<item.en>>, o)
                /\ IF r.exc # "none"
                   THEN CatchInMain /\ UNCHANGED files
                   ELSE IF got
                   THEN /\ loc' = l2
                        /\ files' = PatchWritten(files, l2.data)
                        /\ Goto("patching")
                   ELSE /\ loc' = l1
                        /\ Goto("patching")
                        /\ UNCHANGED files
    /\ UNCHANGED <<books, stages, renders, entry, attempts, offVars>>

\* main.py 280-284: the loop is over, data is returned
PatchDone ==
    /\ pc = "patching"
    /\ NextNeedy(loc.data, loc.pb, loc.pi) = NoPosition
    /\ Goto("refine")
    /\ UNCHANGED <<books, files, loc, stages, renders, calls, entry, attempts, faults, offVars>>

----------------------------------------------------------------------------
(* Stage 2 *)

\* assemble.py 233-238, 114-124
RefineStart ==
    /\ pc = "refine"
    /\ Push("stage2")
    /\ loc' = [loc EXCEPT !.chunk = 1]
    /\ Goto("refining")
    /\ UNCHANGED <<books, files, renders, calls, entry, attempts, faults, offVars>>

\* assemble.py 126-129: one chunk
RefineChunk ==
    /\ pc = "refining"
    /\ (loc.chunk - 1) * ChunkSize < Len(Translatable(loc.data))
    /\ LET idxs == Chunk(loc.data, loc.chunk)
       IN  IF NothingToRefine(loc.data, idxs)
           THEN /\ loc' = [loc EXCEPT !.chunk = @ + 1, !.last = [sent |-> FALSE, before |-> <<>>,
                                                    idxs |-> <<>>, reply |-> RFail]]
                /\ UNCHANGED <<calls, faults>>
           ELSE \E o \in RefineAnswers(SegCount(loc.data, idxs)) :
                    /\ loc' = [loc EXCEPT !.chunk = @ + 1,
                                          !.data = refine_chunk(loc.data, idxs, o),
                                          !.last = [sent |-> TRUE, before |-> loc.data,
                                                    idxs |-> idxs, reply |-> o]]
                    /\ calls' = calls + 1
                    /\ faults' = IF o = DefaultRefined(SegCount(loc.data, idxs))
                                 THEN faults ELSE faults + 1
    /\ Goto("refining")
    /\ UNCHANGED <<books, files, stages, renders, entry, attempts, offVars>>

\* assemble.py 240-243: the refined state is saved
SaveRefined ==
    /\ pc = "refining"
    /\ (loc.chunk - 1) * ChunkSize >= Len(Translatable(loc.data))
    /\ files' = [files EXCEPT ![bi].refined = DataFile(loc.data)]
    /\ Goto("pdf")
    /\ UNCHANGED <<books, loc, stages, renders, calls, entry, attempts, faults, offVars>>

----------------------------------------------------------------------------
(* Stage 3 *)

\* assemble.py 145-176 called at main.py 318 and assemble.py 246: the renderer
\* writes the final artifact or raises
PipelinePdf ==
    /\ pc = "pdf"
    /\ Push("stage3")
    /\ renders' = Append(renders, "pdf")
    /\ \/ \E n \in {PdfMinSize, PdfMinSize + 1} :
            /\ files' = [files EXCEPT ![bi].final = FinalFile(n)]
            /\ Goto("epub")
            /\ UNCHANGED <<loc, faults>>
       \/ /\ faults < MaxFaults
          /\ faults' = faults + 1
          /\ Raise
          /\ UNCHANGED files
    /\ UNCHANGED <<books, calls, entry, attempts, offVars>>

\* assemble.py 178-231 called at main.py 319 and assemble.py 247
PipelineEpub ==
    /\ pc = "epub"
    /\ renders' = Append(renders, "epub")
    /\ \/ /\ files' = [files EXCEPT ![bi].epub = TRUE]
          /\ Return
          /\ UNCHANGED faults
       \/ /\ faults < MaxFaults
          /\ faults' = faults + 1
          /\ \/ Return
             \/ Raise
          /\ UNCHANGED files
    /\ UNCHANGED <<books, stages, calls, entry, attempts, offVars>>

----------------------------------------------------------------------------
(* The process *)

\* the program is started (again): after an interruption or after a run
Restart ==
    /\ pc' = "main"
    /\ bi' = 1
    /\ loc' = LocInit
    /\ stages' = <<>>
    /\ calls' = 0
    /\ entry' = NoArtifacts
    /\ attempts' = Fresh(Len(books))
    /\ errors' = {}
    /\ ended' = "none"
    /\ raisedAt' = "none"
    /\ renders' = <<>>
    /\ UNCHANGED <<books, files, faults, offVars>>

Interrupt == pc # "done" /\ Restart

Rerun == pc = "done" /\ Restart

\* the steps of the program itself
Program ==
    \/ StartBook
    \/ FinishMain
    \/ Check1
    \/ Check2
    \/ Check3
    \/ Stage1Enter
    \/ Stage1Block
    \/ Stage1Finish
    \/ PatchLoad
    \/ PatchStep
    \/ PatchDone
    \/ RefineStart
    \/ RefineChunk
    \/ SaveRefined
    \/ PipelinePdf
    \/ PipelineEpub

Next ==
    \/ Program
    \/ Interrupt
    \/ Rerun

Init == Start(OneBook)

InitMain == Start(ManyBooks)

\* one document, of any kind
Spec == Init /\ [][Next]_vars

\* main over several documents: one run that nothing interrupts; the single
\* thread keeps taking its next step
SpecMain == InitMain /\ [][Program]_vars /\ WF_vars(Program)

----------------------------------------------------------------------------
(* process_all: the assemble-only entry point over the structural files *)

TargetText == <<"x", "y", "z", ".">>

ImageBlock(page, idx) ==
    [page |-> page, type |-> "image", content |-> <<>>, path |-> <<page, idx>>]
TextBlock(page, type, content) ==
    [page |-> page, type |-> type, content |-> content, path |-> NoPath]

\* the state Stage 1 leaves for a page with an image and a paragraph
SmallDoc ==
    <<ImageBlock(1, 1),
      TextBlock(1, "paragraph", <<Segment(S1, TargetText), Segment(S2, TargetText)>>)>>

\* a state with more translatable blocks than one chunk holds, an image and
\* a paragraph without sentences among them
LongDoc ==
    [i \in 1..(ChunkSize + 3) |->
        IF i = 2 THEN ImageBlock(i, 0)
        ELSE IF i = 3 THEN TextBlock(i, "paragraph", <<>>)
        ELSE TextBlock(i, IF i = 1 THEN "heading" ELSE "paragraph",
                       <<Segment(IF i % 2 = 0 THEN S1 ELSE S2, TargetText)>>)]

AllDocs == {<<>>, SmallDoc, LongDoc}

InitAll ==
    /\ books = <<>>
    /\ files \in [1..MaxBooks ->
            {[structural |-> DataFile(d), refined |-> NoFile, final |-> f, epub |-> FALSE] :
                d \in AllDocs, f \in {NoFinal, FinalFile(PdfMinSize + 1)}}]
    /\ pc = "all"
    /\ bi = 1
    /\ loc = LocInit
    /\ stages = <<>>
    /\ calls = 0
    /\ entry = NoArtifacts
    /\ attempts = Fresh(Len(files))
    /\ errors = {}
    /\ ended = "none"
    /\ faults = 0
    /\ prog = "process_all"
    /\ raisedAt = "none"
    /\ renders = <<>>
    /\ tSentences = <<>>
    /\ tOutcome = OTimeout
    /\ tResult = NotCalled
    /\ aData = <<>>
    /\ aOnDisk = <<>>
    /\ aPdf = NotRun
    /\ aEpub = NotRun
    /\ sText = <<>>
    /\ sOut = NotSplit
    /\ sAgain = NotSplit

\* assemble.py 256-269: the loop takes the next structural file, skips it
\* when its final artifact exists, and otherwise loads it
AllBook ==
    /\ pc = "all"
    /\ bi <= Len(files)
    /\ attempts' = [attempts EXCEPT ![bi] = @ + 1]
    /\ entry' = files[bi]
    /\ stages' = <<>>
    /\ renders' = <<>>
    /\ calls' = 0
    /\ raisedAt' = "none"
    /\ IF files[bi].final.exists
       THEN /\ pc' = "all"
            /\ bi' = bi + 1
            /\ ended' = "skipped"
            /\ UNCHANGED loc
       ELSE /\ pc' = "refine"
            /\ ended' = "running"
            /\ loc' = [LocInit EXCEPT !.data = files[bi].structural.data,
                                      !.path = "process_all"]
            /\ UNCHANGED bi
    /\ UNCHANGED <<books, files, errors, faults, offVars>>

\* assemble.py 272: the loop is over
AllFinish ==
    /\ pc = "all"
    /\ bi > Len(files)
    /\ pc' = "done"
    /\ UNCHANGED <<books, files, bi, loc, stages, renders, calls, entry, attempts, errors,
                   raisedAt, ended, faults, offVars>>

NextAll ==
    \/ AllBook
    \/ AllFinish
    \/ RefineStart
    \/ RefineChunk
    \/ SaveRefined
    \/ PipelinePdf
    \/ PipelineEpub

\* one run of process_all; the single thread keeps taking its next step
SpecAll == InitAll /\ [][NextAll]_vars /\ WF_vars(NextAll)

----------------------------------------------------------------------------
(* patch_missing_translations over a structural file left by Stage 1 *)

MaxPatchBlocks == 2

\* main.py 262-265: the Patcher is about to load a structural file; its blocks
\* are a paragraph with an empty and a short target text, a translated
\* heading, an image, and a heading with an empty target text
InitPatch ==
    /\ books = <<>>
    /\ \E n \in 1..MaxPatchBlocks :
        \E d \in [1..n -> {TextBlock(1, "paragraph", <<Segment(S1, <<>>), Segment(S2, <<"x">>)>>),
                           TextBlock(1, "heading", <<Segment(S1, TargetText)>>),
                           ImageBlock(1, 1),
                           TextBlock(2, "heading", <<Segment(S2, <<>>)>>)}] :
            files = <<[structural |-> DataFile(d), refined |-> NoFile,
                       final |-> NoFinal, epub |-> FALSE]>>
    /\ pc = "patch"
    /\ bi = 1
    /\ loc = LocInit
    /\ stages = <<>>
    /\ calls = 0
    /\ entry = files[1]
    /\ attempts = <<1>>
    /\ errors = {}
    /\ ended = "running"
    /\ faults = 0
    /\ prog = "main"
    /\ raisedAt = "none"
    /\ renders = <<>>
    /\ tSentences = <<>>
    /\ tOutcome = OTimeout
    /\ tResult = NotCalled
    /\ aData = <<>>
    /\ aOnDisk = <<>>
    /\ aPdf = NotRun
    /\ aEpub = NotRun
    /\ sText = <<>>
    /\ sOut = NotSplit
    /\ sAgain = NotSplit

NextPatch ==
    \/ PatchLoad
    \/ PatchStep
    \/ PatchDone

SpecPatch == InitPatch /\ [][NextPatch]_vars

----------------------------------------------------------------------------
(* translate_sentence_batch on its own: every outcome of the HTTP call *)

MaxEntries == 1

EntryLists == UNION {[1..n -> Entries] : n \in 0..MaxEntries}

TrValues == {TrNull} \cup {TrList(l) : l \in EntryLists}

Payloads ==
    {PayArray(TRUE), PayArray(FALSE), PayObjectNoKey(TRUE), PayObjectNoKey(FALSE)}
        \cup {PayObject(tr) : tr \in TrValues}

Texts == {TextNotString, TextNoSpan, TextBadSpan} \cup {TextJson(p) : p \in Payloads}

ServiceOutcomes ==
    {OTimeout, OConnection, OHttpError, OEnvelopeNotJson, OEnvelopeNotDict,
     OEnvelopeNoResponse} \cup {OReply(t) : t \in Texts}

SentenceLists == {<<>>, <<S1>>, <<S2>>, <<S1, S2>>}

\* the pipeline is not running
Idle(p) ==
    /\ books = <<>>
    /\ files = <<>>
    /\ pc = p
    /\ bi = 1
    /\ loc = LocInit
    /\ stages = <<>>
    /\ calls = 0
    /\ entry = NoArtifacts
    /\ attempts = <<>>
    /\ errors = {}
    /\ ended = "none"
    /\ faults = 0
    /\ prog = "none"
    /\ raisedAt = "none"
    /\ renders = <<>>

InitTranslate ==
    /\ Idle("translate")
    /\ tSentences \in SentenceLists
    /\ tOutcome \in ServiceOutcomes
    /\ tResult = NotCalled
    /\ aData = <<>>
    /\ aOnDisk = <<>>
    /\ aPdf = NotRun
    /\ aEpub = NotRun
    /\ sText = <<>>
    /\ sOut = NotSplit
    /\ sAgain = NotSplit

\* a caller calls translate_sentence_batch
Translate ==
    /\ pc = "translate"
    /\ tResult' = translate_sentence_batch(tSentences, tOutcome)
    /\ pc' = "translated"
    /\ UNCHANGED <<books, files, bi, loc, stages, calls, entry, attempts, errors, ended, raisedAt, renders, prog,
                   faults, tSentences, tOutcome, asmVars, splVars>>

NextTranslate == Translate

SpecTranslate == InitTranslate /\ [][NextTranslate]_vars

----------------------------------------------------------------------------
(* The renderers on their own: every small Document State *)

MaxAsmBlocks == 3

Target == <<"x", "y", ".">>

\* the blocks a Document State may hold at position i
AsmBlocks(i) ==
    {[page |-> 1, type |-> "image", content |-> <<>>, path |-> <<1, i>>],
     [page |-> 1, type |-> "heading", content |-> <<Segment(S1, Target)>>, path |-> NoPath],
     [page |-> 1, type |-> "paragraph", content |-> <<Segment(S1, Target)>>, path |-> NoPath],
     [page |-> 1, type |-> "paragraph", content |-> <<Segment(S1, <<>>)>>, path |-> NoPath]}

AsmDocs ==
    UNION {{d \in [1..n -> UNION {AsmBlocks(i) : i \in 1..n}] :
                \A i \in 1..n : d[i] \in AsmBlocks(i)} : n \in 0..MaxAsmBlocks}

ImagePaths(data) == {data[i].path : i \in {j \in 1..Len(data) : data[j].type = "image"}}

InitAssemble ==
    /\ Idle("assemble")
    /\ tSentences = <<>>
    /\ tOutcome = OTimeout
    /\ tResult = NotCalled
    /\ aData \in AsmDocs
    /\ aOnDisk \in [ImagePaths(aData) -> {"ok", "unreadable", "missing"}]
    /\ aPdf = NotRun
    /\ aEpub = NotRun
    /\ sText = <<>>
    /\ sOut = NotSplit
    /\ sAgain = NotSplit

\* assemble.py 246, main.py 318
RunAssemblePdf ==
    /\ pc = "assemble"
    /\ ~aPdf.done
    /\ aPdf' = Rendered(assemble_pdf(aData, aOnDisk))
    /\ UNCHANGED <<pipeVars, trVars, splVars, aData, aOnDisk, aEpub>>

\* assemble.py 247, main.py 319
RunAssembleEpub ==
    /\ pc = "assemble"
    /\ aPdf.done
    /\ ~aEpub.done
    /\ aEpub' = Rendered(assemble_epub(aData, aOnDisk))
    /\ UNCHANGED <<pipeVars, trVars, splVars, aData, aOnDisk, aPdf>>

NextAssemble == RunAssemblePdf \/ RunAssembleEpub

SpecAssemble == InitAssemble /\ [][NextAssemble]_vars

----------------------------------------------------------------------------
(* split_sentences on its own: every short text *)

MaxTextLen == 7

Whitespace == {" "}

\* main.py 74
Abbreviations ==
    {<<"M", "r">>, <<"M", "r", "s">>, <<"M", "s">>, <<"D", "r">>, <<"S", "t">>, <<"a">>,
     <<"p">>, <<"v">>, <<"v", "s">>, <<"I", "n", "c">>, <<"L", "t", "d">>, <<"C", "o", "r", "p">>}

\* str.strip() on the left and on the right
RECURSIVE LStrip(_)
LStrip(t) == IF t # <<>> /\ Head(t) \in Whitespace THEN LStrip(Tail(t)) ELSE t

RECURSIVE RStrip(_)
RStrip(t) ==
    IF t # <<>> /\ t[Len(t)] \in Whitespace THEN RStrip(SubSeq(t, 1, Len(t) - 1)) ELSE t

Strip(t) == LStrip(RStrip(t))

\* the first position at or after i of a terminator followed by whitespace;
\* 0 when there is none
RECURSIVE FirstBreak(_, _)
FirstBreak(t, i) ==
    IF i >= Len(t) THEN 0
    ELSE IF t[i] \in Punctuation /\ t[i + 1] \in Whitespace THEN i
    ELSE FirstBreak(t, i + 1)

\* the last position of the run of whitespace that starts at i
RECURSIVE RunEnd(_, _)
RunEnd(t, i) == IF i < Len(t) /\ t[i + 1] \in Whitespace THEN RunEnd(t, i + 1) ELSE i

\* a split on a terminator followed by exactly one whitespace character
RECURSIVE RawSplitsSingleSpace(_)
RawSplitsSingleSpace(t) ==
    LET i == FirstBreak(t, 1)
    IN  IF i = 0 THEN <<t>>
        ELSE <<SubSeq(t, 1, i - 1), <<t[i]>>>>
                \o RawSplitsSingleSpace(SubSeq(t, i + 2, Len(t)))

\* main.py 71: re.split(r'([.!?])\s+', text): the pieces between the matches,
\* each followed by the terminator the match captured
RECURSIVE RawSplits(_)
RawSplits(t) ==
    LET i == FirstBreak(t, 1)
    IN  IF i = 0 THEN <<t>>
        ELSE <<SubSeq(t, 1, i - 1), <<t[i]>>>>
                \o RawSplits(SubSeq(t, RunEnd(t, i + 1) + 1, Len(t)))

\* main.py 80-81: the last word of chunk.split(), "" when there is none
RECURSIVE WordStart(_, _)
WordStart(t, i) == IF i >= 1 /\ t[i] \notin Whitespace THEN WordStart(t, i - 1) ELSE i + 1

\* main.py 76-84: the loop over the pairs (chunk, punc) from pair i on
RECURSIVE SplitLoop(_, _, _)
SplitLoop(raw, i, st) ==
    IF i > Len(raw) - 1 THEN st
    ELSE LET current == st.current \o raw[i] \o raw[i + 1]
             c == RStrip(raw[i])
             last_word == SubSeq(c, WordStart(c, Len(c)), Len(c))
         IN  IF last_word \notin Abbreviations
             THEN SplitLoop(raw, i + 2,
                    [sentences |-> Append(st.sentences, Strip(current)), current |-> <<>>])
             ELSE SplitLoop(raw, i + 2, [st EXCEPT !.current = current])

\* main.py 69-93
split_sentences(text) ==
    IF text = <<>> THEN <<>>
    ELSE LET raw_splits == RawSplits(text)
             st == SplitLoop(raw_splits, 1, [sentences |-> <<>>, current |-> <<>>])
             odd == Len(raw_splits) % 2 # 0
             last == raw_splits[Len(raw_splits)]
             sentences ==
                IF st.current # <<>>
                THEN Append(st.sentences,
                            Strip(IF odd THEN st.current \o last ELSE st.current))
                ELSE IF odd THEN Append(st.sentences, Strip(last))
                ELSE st.sentences
         IN  SelectSeq(sentences, LAMBDA x : Len(x) > 2)

SplitResult(out) == [done |-> TRUE, out |-> out]

\* " ".join(sentences)
RECURSIVE JoinSpace(_)
JoinSpace(ss) ==
    IF ss = <<>> THEN <<>>
    ELSE IF Len(ss) = 1 THEN ss[1]
    ELSE ss[1] \o <<" ">> \o JoinSpace(Tail(ss))

\* "Dr. Smith arrived. He left."
ExampleText ==
    <<"D", "r", ".", " ", "S", "m", "i", "t", "h",
      " ", "a", "r", "r", "i", "v", "e", "d", ".",
      " ", "H", "e", " ", "l", "e", "f", "t", ".">>

\* "Dr. Smith arrived."
ExampleFirst == SubSeq(ExampleText, 1, 18)

SplitTexts ==
    UNION {[1..n -> {"a", "b", ".", " "}] : n \in 0..MaxTextLen} \cup {ExampleText}

InitSplit ==
    /\ Idle("split")
    /\ tSentences = <<>>
    /\ tOutcome = OTimeout
    /\ tResult = NotCalled
    /\ aData = <<>>
    /\ aOnDisk = <<>>
    /\ aPdf = NotRun
    /\ aEpub = NotRun
    /\ sText \in SplitTexts
    /\ sOut = NotSplit
    /\ sAgain = NotSplit

\* main.py 184: get_page_structure segments the text of a block
Split ==
    /\ pc = "split"
    /\ sOut' = SplitResult(split_sentences(sText))
    /\ pc' = "joined"
    /\ UNCHANGED <<books, files, bi, loc, stages, calls, entry, attempts, errors, ended,
                   faults, prog, raisedAt, renders, trVars, asmVars, sText, sAgain>>

\* the sentences, joined by single spaces, are segmented again
Resplit ==
    /\ pc = "joined"
    /\ sAgain' = SplitResult(split_sentences(JoinSpace(sOut.out)))
    /\ pc' = "resplit"
    /\ UNCHANGED <<books, files, bi, loc, stages, calls, entry, attempts, errors, ended,
                   faults, prog, raisedAt, renders, trVars, asmVars, sText, sOut>>

NextSplit == Split \/ Resplit

SpecSplit == InitSplit /\ [][NextSplit]_vars

----------------------------------------------------------------------------
(* Properties *)

\* the document the history variables stages, calls and entry are about
Tracking == ended \in {"running", "returned", "raised"}
Cur == IF ended = "running" THEN bi ELSE bi - 1

EntryFinalValid == entry.final.exists /\ entry.final.size > PdfMinSize
EntryFinalUndersized == entry.final.exists /\ entry.final.size <= PdfMinSize
EntryRefinedValid ==
    entry.refined.exists /\ JsonSize(entry.refined.data) > RefinedMinSize
EntryStructuralValid ==
    entry.structural.exists /\ JsonSize(entry.structural.data) > StructuralMinSize

IsPrefix(s, t) == Len(s) <= Len(t) /\ SubSeq(t, 1, Len(s)) = s
Range(s) == {s[i] : i \in 1..Len(s)}

\* the stages called, without the mark of Stage 1 actually extracting
StageCalls == SelectSeq(stages, LAMBDA x : x # "extract")

\* C1: a document whose final artifact exists and is larger than the
\* threshold is skipped: no stage runs, no external call is made, and the
\* structural, refined and final artifacts stay as they were.
C1_FinalExistsTerminal ==
    (Tracking /\ EntryFinalValid) =>
        /\ stages = <<>>
        /\ calls = 0
        /\ files[Cur] = entry
        /\ ended # "raised"
        /\ pc \in {"check1", "main", "done"}

C1_Witness ==
    /\ ended = "returned"
    /\ EntryFinalValid
    /\ entry.structural.exists
    /\ entry.refined.exists

\* what the driver runs when the final artifact is absent, from the refined
\* and structural artifacts it finds
PlannedStages ==
    IF EntryRefinedValid THEN <<"stage3">>
    ELSE (IF EntryStructuralValid THEN <<>> ELSE <<"stage1">>)
            \o <<"patch", "stage2", "stage3">>

\* C2: a final artifact at or below the threshold is deleted, and from then
\* on the driver is in the state, and runs the stages, of a document whose
\* final artifact is absent, whatever the refined and structural artifacts.
C2_UndersizedFinalAsAbsent ==
    (Tracking /\ ~EntryFinalValid) =>
        /\ pc = "check2" => files[bi] = [entry EXCEPT !.final = NoFinal]
        /\ IsPrefix(StageCalls, PlannedStages)
        /\ ended = "returned" => StageCalls = PlannedStages

C2_Witness ==
    /\ ended = "returned"
    /\ EntryFinalUndersized
    /\ ~EntryRefinedValid
    /\ "stage3" \in Range(stages)

\* C3: with no valid final artifact and a valid refined state, only Stage 3
\* runs: no Stage 1, Patcher or Stage 2, no external call, and the structural
\* and refined files stay as they were.
C3_RefinedExistsAssembleOnly ==
    (Tracking /\ ~EntryFinalValid /\ EntryRefinedValid) =>
        /\ IsPrefix(stages, <<"stage3">>)
        /\ calls = 0
        /\ files[Cur].structural = entry.structural
        /\ files[Cur].refined = entry.refined
        /\ ended = "returned" => stages = <<"stage3">>

C3_Witness ==
    /\ ended = "returned"
    /\ ~EntryFinalValid
    /\ EntryRefinedValid
    /\ stages = <<"stage3">>
    /\ files[Cur].final.exists

\* C4: with neither a valid final nor a valid refined artifact, a structural
\* file that is missing or undersized makes Stage 1 extract again, followed by
\* Patcher, Stage 2 and Stage 3.
C4_UndersizedStructuralReextracted ==
    (/\ ended = "returned"
     /\ ~EntryFinalValid
     /\ ~EntryRefinedValid
     /\ ~EntryStructuralValid) =>
        stages = <<"stage1", "extract", "patch", "stage2", "stage3">>

\* C5: when a structural state file exists, Stage 1 does not extract: when
\* process_book_stage1 has returned, no translation call was made and the
\* file holds what it held.
C5_Stage1ShortCircuit ==
    (Tracking /\ entry.structural.exists) =>
        /\ "extract" \notin Range(stages)
        /\ pc \in {"stage1", "patch"} =>
                /\ files[bi].structural = entry.structural
                /\ calls = 0

C5_Witness ==
    /\ pc = "patch"
    /\ stages = <<"stage1">>
    /\ entry.structural.exists
    /\ entry.structural.data # <<>>

EmptyTargets(data) ==
    Cardinality({q \in TextPositions(data) : data[q[1]].content[q[2]].mn = <<>>})

\* C6: a Patcher pass over K segments with an empty or short target, every
\* request of which is answered with a translation, makes K requests, writes
\* the structural file K times and leaves no empty target.
C6_PatcherConvergence ==
    (pc = "refine" /\ loc.translated) =>
        /\ loc.requests = loc.needed
        /\ loc.writes = loc.needed
        /\ EmptyTargets(loc.data) = 0
        /\ files[bi].structural.data = loc.data

C6_Witness ==
    /\ pc = "refine"
    /\ loc.translated
    /\ loc.needed >= 2
    /\ loc.writes = loc.needed

\* C7: in every structural state file, every target text is empty or ends
\* with '.', '!' or '?'.
C7_TerminalPunctuation ==
    \A b \in DOMAIN files :
        \A q \in TextPositions(files[b].structural.data) :
            LET mn == files[b].structural.data[q[1]].content[q[2]].mn
            IN  mn = <<>> \/ EndsWithPunct(mn)

C7_Witness ==
    \E b \in DOMAIN files :
        \E q \in TextPositions(files[b].structural.data) :
            files[b].structural.data[q[1]].content[q[2]].mn = Append(DefaultMn, ".")

\* the outcomes for which an empty result is promised
ListedFailure(o) ==
    \/ o.k \in {"timeout", "connection", "http_error", "envelope_not_json"}
    \/ /\ o.k = "envelope"
       /\ o.hasResponse
       /\ \/ o.text.k \in {"nospan", "badspan"}
          \/ /\ o.text.k = "json"
             /\ \/ o.text.v.k = "array"
                \/ o.text.v.k = "object" /\ ~o.text.v.has

\* C8: translate_sentence_batch never raises, and on a transport failure, a
\* non-JSON envelope, an unparseable text, an array payload or a payload
\* without "translations" it returns the empty result.
C8_TranslateNeverRaises ==
    /\ tResult.exc \in {"pending", "none"}
    /\ (pc = "translated" /\ ListedFailure(tOutcome)) => tResult = Returned(EmptyResult)

C8_Witness ==
    /\ pc = "translated"
    /\ tSentences # <<>>
    /\ tOutcome = OReply(TextJson(PayArray(FALSE)))
    /\ tResult = Returned(EmptyResult)

\* the blocks that must appear: headings, paragraphs, images with a bitmap
MustAppear(data, disk) ==
    {i \in 1..Len(data) : data[i].type \in TextTypes \/ disk[data[i].path] = "ok"}

KeepsOrder(r, data, disk) ==
    r.done =>
        /\ \A j, k \in 1..Len(r.out) : j < k => r.out[j].src < r.out[k].src
        /\ \A i \in MustAppear(data, disk) : \E k \in 1..Len(r.out) : r.out[k].src = i

\* C9: both renderers emit the blocks in Document State order, dropping no
\* heading, paragraph or image whose bitmap exists, whatever the first block.
C9_OrderPreserved ==
    /\ KeepsOrder(aPdf, aData, aOnDisk)
    /\ KeepsOrder(aEpub, aData, aOnDisk)

C10_OneAtATime ==
    /\ bi \in 1..(Len(books) + 1)
    /\ \A i \in 1..Len(books) :
            attempts[i] = IF i < bi \/ (i = bi /\ pc # "main") THEN 1 ELSE 0
    /\ errors \subseteq 1..(bi - 1)
    /\ pc = "done" => bi = Len(books) + 1

\* C10: main processes the documents one at a time in list order; an
\* exception while processing one is caught, every later document is still
\* attempted exactly once, and the loop reaches the end of the list.
C10_ErrorsDoNotHaltBatch == []C10_OneAtATime /\ <>(pc = "done")

C10_Witness ==
    /\ pc = "done"
    /\ Len(books) >= 2
    /\ 1 \in errors
    /\ attempts[Len(books)] = 1

\* text s occurs in text t
Contains(t, s) == \E i \in 0..(Len(t) - Len(s)) : SubSeq(t, i + 1, i + Len(s)) = s

\* C11: a terminator after an abbreviation does not split, and the pieces are
\* rejoined with the original text unchanged: "Dr. Smith arrived. He left."
\* gives exactly two sentences, the first containing "Dr. Smith arrived.".
C11_AbbreviationRejoined ==
    (sOut.done /\ sText = ExampleText) =>
        /\ Len(sOut.out) = 2
        /\ Contains(sOut.out[1], ExampleFirst)

\* C14: segmenting the single-space join of split_sentences' own output gives
\* the same sentences again.
C14_SplitIdempotent == sAgain.done => sAgain.out = sOut.out

C14_Witness ==
    /\ sAgain.done
    /\ Len(sOut.out) >= 2
    /\ sText # ExampleText
    /\ sAgain.out = sOut.out

\* the replies that count as a failed refinement request
RefineFailed(o) == o.k \in {"fail", "null", "string"} \/ o = RList(<<>>)

\* C12: when the refinement request of a chunk fails (also when refined_mn
\* is missing or is not a list), every target text of the chunk keeps its
\* value, and no exception leaves Stage 2: the remaining chunks, the save of
\* the refined state and Stage 3 still run.
C12_RefineFailureKeepsText ==
    /\ (pc = "refining" /\ loc.last.sent /\ RefineFailed(loc.last.reply)) =>
            loc.data = loc.last.before
    /\ ended = "raised" => raisedAt \notin {"refine", "refining"}

\* C13: in Stage 3 a failure of one renderer does not keep the other from
\* being attempted: a process_single_book that reached Stage 3 and has ended
\* has called both renderers.
C13_RenderersIndependent ==
    (ended \in {"returned", "raised"} /\ "stage3" \in Range(stages)) =>
        Range(renders) = {"pdf", "epub"}

\* the pages of a source document that hold a block, and the pages a
\* Document State has blocks of
SourcePages(book) == {n \in 1..Len(book.pages) : book.pages[n] # <<>>}
PagesOf(data) == {data[i].page : i \in 1..Len(data)}

\* C15: a run that finds a structural checkpoint left by an interrupted
\* Stage 1 and completes patches, refines and assembles a Document State
\* with the blocks of every page of the source document.
C15_ResumeCoversEveryPage ==
    (/\ Tracking
     /\ ended = "returned"
     /\ entry.structural.exists
     /\ ~EntryFinalValid
     /\ "stage3" \in Range(stages)) =>
        SourcePages(books[Cur]) \subseteq PagesOf(files[Cur].refined.data)

\* the position in the source of a persisted block
SourcePos(src, blk) ==
    CHOOSE i \in 1..Len(src) :
        /\ src[i].page = blk.page
        /\ src[i].type = blk.type
        /\ src[i].sentences = [k \in 1..Len(blk.content) |-> blk.content[k].en]

\* C16: in every structural state the blocks are in source reading order,
\* also an image that follows a text block on its page.
C16_ReadingOrder ==
    \A b \in DOMAIN files :
        LET d == files[b].structural.data
            src == AllBlocks(books[b].pages, 1)
        IN  \A j, k \in 1..Len(d) : j < k => SourcePos(src, d[j]) < SourcePos(src, d[k])

\* C17: whatever parseable payload the service replies, no Stage 1 flush and
\* no Patcher step raises: the document does not fail in extraction or
\* patching.
C17_MalformedReplyTolerated ==
    ended = "raised" => raisedAt \notin {"extract", "patching"}

\* the target texts of the chunk's segments, in block-then-segment order
FlatMn(data, idxs) ==
    Concat([j \in 1..Len(idxs) |->
                [i \in 1..Len(data[idxs[j]].content) |-> data[idxs[j]].content[i].mn]])

\* a Document State without its target texts
Untargeted(data) ==
    [b \in 1..Len(data) |->
        [data[b] EXCEPT !.content = [i \in 1..Len(@) |-> [@[i] EXCEPT !.mn = <<>>]]]]

IsTranslatable(block) == block.type \in TextTypes /\ block.content # <<>>

\* C18: a chunk is at most 15 consecutive translatable blocks; with the
\* returned list L, the i-th segment of the chunk gets L[i] when L has it
\* and keeps its target text otherwise; nothing else changes.
C18_PositionalReplacement ==
    (pc = "refining" /\ loc.last.sent /\ loc.last.reply.k = "list") =>
        LET before == loc.last.before
            idxs == loc.last.idxs
            L == loc.last.reply.v
            old == FlatMn(before, idxs)
        IN  /\ Len(idxs) \in 1..ChunkSize
            /\ \A j \in 1..Len(idxs) : IsTranslatable(before[idxs[j]])
            /\ \A j \in 1..(Len(idxs) - 1) :
                    /\ idxs[j] < idxs[j + 1]
                    /\ \A b \in (idxs[j] + 1)..(idxs[j + 1] - 1) : ~IsTranslatable(before[b])
            /\ FlatMn(loc.data, idxs) =
                    [k \in 1..Len(old) |-> IF k <= Len(L) THEN L[k] ELSE old[k]]
            /\ Untargeted(loc.data) = Untargeted(before)
            /\ \A b \in 1..Len(before) :
                    (\A j \in 1..Len(idxs) : idxs[j] # b) => loc.data[b] = before[b]

C18_Witness ==
    /\ pc = "refining"
    /\ loc.last.sent
    /\ loc.last.reply = RList(<<RefinedText>>)
    /\ Len(loc.last.idxs) = ChunkSize
    /\ \E b \in 1..Len(loc.data) : loc.data[b].type = "image"

\* a Document State reduced to what only Stage 1 may write
Skeleton(data) ==
    [b \in 1..Len(data) |->
        [page |-> data[b].page, type |-> data[b].type, path |-> data[b].path,
         en |-> [i \in 1..Len(data[b].content) |-> data[b].content[i].en]]]

AppendOnlyStep ==
    \A b \in DOMAIN files :
        LET old == files[b].structural
            new == files'[b].structural
        IN  /\ old.exists =>
                /\ new.exists
                /\ IsPrefix(Skeleton(old.data), Skeleton(new.data))
            /\ (old.exists /\ pc = "extract") => IsPrefix(old.data, new.data)
            /\ (old.exists /\ pc # "extract") => Skeleton(new.data) = Skeleton(old.data)
            /\ (files'[b].refined.exists /\ files'[b].refined # files[b].refined) =>
                    Skeleton(files'[b].refined.data) = Skeleton(old.data)

\* C19: the persisted Document State only grows by appending: every
\* structural file Stage 1 writes extends the one written before, and the
\* Patcher and the Refiner change nothing but target texts.
C19_AppendOnly == [][AppendOnlyStep]_vars

C19_Witness ==
    \E b \in DOMAIN files :
        /\ Len(files[b].structural.data) >= 3
        /\ files[b].refined.exists
        /\ files[b].refined.data # files[b].structural.data

\* C20: an exception while refining or assembling one structural file does
\* not stop the loop of process_all: the run is not aborted, and it ends with
\* every file attempted.
C20_ProcessAllIsolatesErrors ==
    /\ pc # "aborted"
    /\ pc = "done" => \A i \in 1..Len(files) : attempts[i] = 1

\* the service's answer gives the Patcher nothing to store for the sentence
Untranslated(o, en) ==
    LET r == translate_sentence_batch(<<en>>, o)
    IN  \/ r.exc # "none"
        \/ r.val.k # "list"
        \/ r.val.v = <<>>
        \/ ~r.val.v[1].hasMn
        \/ r.val.v[1].mn = <<>>

\* the segments whose target text differs between two Document States
Repatched(old, new) ==
    {q \in TextPositions(old) : new[q[1]].content[q[2]].mn # old[q[1]].content[q[2]].mn}

PatcherStep ==
    /\ pc = "patching" => files[bi].structural.data = loc.data
    /\ pc' = "patching" => files'[bi'].structural.data = loc'.data
    /\ (pc = "patching" /\ calls' # calls /\ pc' # "patching") => files' = files
    /\ (pc = "patching" /\ calls' # calls /\ pc' = "patching") =>
            LET o == loc'.answer
                changed == Repatched(loc.data, loc'.data)
                short == {q \in TextPositions(loc.data) :
                                Len(loc.data[q[1]].content[q[2]].mn) < 3}
            IN  /\ Untargeted(loc'.data) = Untargeted(loc.data)
                /\ Cardinality(changed) <= 1
                /\ changed \subseteq short
                /\ \A q \in changed : ~Untranslated(o, loc.data[q[1]].content[q[2]].en)
                /\ (\A q \in short : Untranslated(o, loc.data[q[1]].content[q[2]].en)) =>
                        /\ changed = {}
                        /\ files' = files

\* C21: between the requests of a Patcher pass the structural file equals the
\* Document State in memory with every patch made so far, and a request that
\* fails or returns no translation changes neither the segment nor the file.
C21_PatcherPersistsEachPatch == [][PatcherStep]_vars

C21_Witness ==
    /\ pc = "patching"
    /\ loc.modified_count >= 1
    /\ loc.requests > loc.modified_count
    /\ loc.answer = OTimeout
    /\ Repatched(entry.structural.data, files[bi].structural.data) # {}

\* every non-empty target text of a Document State ends with '.', '!' or '?'
Punctuated(data) ==
    \A b \in 1..Len(data) :
        \A i \in 1..Len(data[b].content) :
            LET mn == data[b].content[i].mn
            IN  mn # <<>> => mn[Len(mn)] \in {".", "!", "?"}

\* C22: in every Document State the pipeline persists (structural, refined)
\* or hands to the Assembler, every non-empty target text ends with terminal
\* punctuation.
C22_TargetsPunctuated ==
    /\ \A b \in DOMAIN files :
            /\ files[b].structural.exists => Punctuated(files[b].structural.data)
            /\ files[b].refined.exists => Punctuated(files[b].refined.data)
    /\ pc \in {"pdf", "epub"} => Punctuated(loc.data)

=============================================================================
